---- MODULE Spec2Model ----
(***************************************************************************)
(* kik4/simple-vercel-deploy, src/index.ts: a GitHub Action that runs      *)
(* `npx vercel`, scrapes `vercel inspect`, asks the Vercel API for the     *)
(* inspector URL, and creates or updates one status comment.               *)
(*                                                                         *)
(* JavaScript strings are modelled as sequences of one-character strings,  *)
(* so that String.prototype.replace, String.prototype.includes, the two    *)
(* regular expressions and the template literals are computed, not         *)
(* assumed.  undefined and null are two one-element sequences whose         *)
(* element is no character.                                                *)
(***************************************************************************)
EXTENDS Integers, Sequences, FiniteSets

\* ------------------------------------------------------------ JS values

Undefined == <<"#undefined">>
Null == <<"#null">>
Empty == <<>>

\* JavaScript truthiness of a string-or-undefined-or-null value.
Truthy(v) == v # Undefined /\ v # Null /\ v # Empty

\* What `${v}` renders inside a template literal.
Render(v) ==
    IF v = Undefined THEN <<"u","n","d","e","f","i","n","e","d">>
    ELSE IF v = Null THEN <<"n","u","l","l">>
    ELSE v

\* ------------------------------------------------------------ literals

\* "refs/heads/" (index.ts:79)
RefsHeads == <<"r","e","f","s","/","h","e","a","d","s","/">>
\* "Deploy " (index.ts:90)
DeployPrefix == <<"D","e","p","l","o","y"," ">>
\* "Deployment preview for _" (index.ts:157)
TitleHead ==
    <<"D","e","p","l","o","y","m","e","n","t"," ","p","r","e","v","i","e","w"," ","f","o","r",
      " ","_">>
\* "_." (index.ts:157)
TitleTail == <<"_",".">>
\* "\n\n<U+1F50D> Inspect: " (index.ts:63-65); the emoji is one element
InspectLabel == <<"\n","\n","U+1F50D"," ","I","n","s","p","e","c","t",":"," ">>
\* "\n<U+2705> Preview: " (index.ts:66)
PreviewLabel == <<"\n","U+2705"," ","P","r","e","v","i","e","w",":"," ">>
\* "\n\nBuilt with commit " (index.ts:66-68)
BuiltLabel == <<"\n","\n","B","u","i","l","t"," ","w","i","t","h"," ","c","o","m","m","i","t"," ">>
\* "." (index.ts:68)
Dot == <<".">>
\* "https://api.vercel.com/v13/deployments/" (index.ts:52)
ApiBase ==
    <<"h","t","t","p","s",":","/","/","a","p","i",".","v","e","r","c","e","l",".","c","o","m",
      "/","v","1","3","/","d","e","p","l","o","y","m","e","n","t","s","/">>
\* the key of /^\s+id\s+(.+)$/m (index.ts:34)
KeyId == <<"i","d">>
\* the key of /^\s+name\s+(.+)$/m (index.ts:35)
KeyName == <<"n","a","m","e">>

\* ------------------------------------------------------------ string operations

Min(a, b) == IF a <= b THEN a ELSE b

\* Whether pat occurs in s at index i (1-based).
OccursAt(s, pat, i) ==
    /\ i >= 1
    /\ i + Len(pat) - 1 <= Len(s)
    /\ SubSeq(s, i, i + Len(pat) - 1) = pat

\* String.prototype.indexOf, 1-based, 0 when pat does not occur.
IndexOf(s, pat) ==
    LET hits == {i \in 1..(Len(s) + 1) : OccursAt(s, pat, i)}
    IN IF hits = {} THEN 0 ELSE CHOOSE i \in hits : \A j \in hits : i <= j

\* String.prototype.includes (index.ts:165, 193).
includes(s, pat) == IndexOf(s, pat) # 0

\* String.prototype.replace with a string pattern (index.ts:79): the first
\* occurrence of pat, wherever it is, is replaced; nothing else is.
replace(s, pat, rep) ==
    LET i == IndexOf(s, pat)
    IN IF i = 0 THEN s
       ELSE SubSeq(s, 1, i - 1) \o rep \o SubSeq(s, i + Len(pat), Len(s))

\* \s and the line terminators of a JavaScript regular expression, over the
\* characters the subprocess outputs use.
IsSpace(c) == c \in {" ", "\t", "\n", "\r"}
IsLineTerminator(c) == c \in {"\n", "\r"}

\* The index after the maximal run of characters satisfying \s from index i.
RECURSIVE SkipSpace(_, _)
SkipSpace(s, i) ==
    IF i <= Len(s) /\ IsSpace(s[i]) THEN SkipSpace(s, i + 1) ELSE i

\* The index after the maximal run of . (no line terminator) from index i.
RECURSIVE SkipDot(_, _)
SkipDot(s, i) ==
    IF i <= Len(s) /\ ~IsLineTerminator(s[i]) THEN SkipDot(s, i + 1) ELSE i

\* The capture of /^\s+<key>\s+(.+)$/m tried at index p, or Null.
\* ^ (multiline) needs p at the start of the input or after a line terminator;
\* the first \s+ ends where <key> begins; the second \s+ is greedy and gives
\* back characters until (.+), which cannot cross a line terminator, has one.
MatchAt(s, key, p) ==
    LET k == SkipSpace(s, p)
        a == k + Len(key)
        b == SkipSpace(s, a)
        starts == {q \in (a + 1)..b : q <= Len(s) /\ ~IsLineTerminator(s[q])}
        q == CHOOSE x \in starts : \A y \in starts : y <= x
    IN IF /\ (p = 1 \/ IsLineTerminator(s[p - 1]))
          /\ k > p
          /\ OccursAt(s, key, k)
          /\ starts # {}
       THEN SubSeq(s, q, SkipDot(s, q) - 1)
       ELSE Null

\* String.prototype.match of /^\s+<key>\s+(.+)$/m, reduced to what the code
\* reads of it (index.ts:34-38): group 1 of the leftmost match, or null.
match(s, key) ==
    LET ps == {p \in 1..Len(s) : MatchAt(s, key, p) # Null}
    IN IF ps = {} THEN Null
       ELSE MatchAt(s, key, CHOOSE p \in ps : \A o \in ps : p <= o)

\* ------------------------------------------------------------ action inputs

\* core.getInput("vercel-token"), ("vercel-org-id"), ("vercel-project-id")
\* (index.ts:7-9) and the parts of github.context that never vary here.
VercelTokenValue == <<"t","o","k">>
OrgIdValue == <<"o","r","g","1">>
ProjectIdValue == <<"p","r","j","1">>
ActorValue == <<"k","i","k","4">>
OwnerValue == <<"k","i","k","4">>
RepoValue == <<"a","p","p">>
RepoIdValue == <<"7">>

\* Values of the triggering events, the subprocess outputs and the API answers.
RefMain == <<"r","e","f","s","/","h","e","a","d","s","/","m","a","i","n">>
RefNested ==
    <<"r","e","f","s","/","h","e","a","d","s","/","a","/","r","e","f","s","/","h","e","a","d",
      "s","/","b">>
RefTag == <<"r","e","f","s","/","t","a","g","s","/","v","1">>
RefTagHeads ==
    <<"r","e","f","s","/","t","a","g","s","/","r","e","f","s","/","h","e","a","d","s","/","x">>
RefPull == <<"r","e","f","s","/","p","u","l","l","/","1","/","m","e","r","g","e">>
HeadRef == <<"f","e","a","t">>
PrTitle == <<"A","d","d"," ","x">>
CommitMsg == <<"f","i","x"," ","y">>
ShaA == <<"a","1","f">>
ShaB == <<"b","2","e">>
HeadSha == <<"c","3","d">>
UrlApp ==
    <<"h","t","t","p","s",":","/","/","m","y","-","a","p","p","-","a","b","c","1","2","3",".",
      "v","e","r","c","e","l",".","a","p","p">>
InspectorA ==
    <<"h","t","t","p","s",":","/","/","v","e","r","c","e","l",".","c","o","m","/","o","r","g",
      "/","m","y","-","a","p","p","/","a","b","c","1","2","3">>
InspectorB ==
    <<"h","t","t","p","s",":","/","/","v","e","r","c","e","l",".","c","o","m","/","o","r","g",
      "/","m","y","-","a","p","p","/","d","e","f","4","5","6">>
LineId == <<" "," "," "," ","i","d","\t","\t","d","p","l","_","9","\n">>
LineName == <<" "," "," "," ","n","a","m","e","\t","m","y","-","a","p","p","\n">>
LineOther == <<">"," ","d","o","n","e","\n">>
ProjName == <<"m","y","-","a","p","p">>
UserBody == <<"L","G","T","M">>

\* The deploy and inspect argument fragments (index.ts:31, 108-137).
ArgVercel == <<"v","e","r","c","e","l">>
ArgInspect == <<"i","n","s","p","e","c","t">>
ArgProd == <<"-","-","p","r","o","d">>
ArgT == <<"-","t">>
ArgM == <<"-","m">>
MetaCommitAuthorName ==
    <<"g","i","t","h","u","b","C","o","m","m","i","t","A","u","t","h","o","r","N","a","m","e",
      "=">>
MetaCommitMessage ==
    <<"g","i","t","h","u","b","C","o","m","m","i","t","M","e","s","s","a","g","e","=">>
MetaCommitOrg == <<"g","i","t","h","u","b","C","o","m","m","i","t","O","r","g","=">>
MetaCommitRef == <<"g","i","t","h","u","b","C","o","m","m","i","t","R","e","f","=">>
MetaCommitRepo == <<"g","i","t","h","u","b","C","o","m","m","i","t","R","e","p","o","=">>
MetaCommitRepoId == <<"g","i","t","h","u","b","C","o","m","m","i","t","R","e","p","o","I","d","=">>
MetaCommitSha == <<"g","i","t","h","u","b","C","o","m","m","i","t","S","h","a","=">>
MetaDeployment == <<"g","i","t","h","u","b","D","e","p","l","o","y","m","e","n","t","=","1">>
MetaOrg == <<"g","i","t","h","u","b","O","r","g","=">>
MetaRepo == <<"g","i","t","h","u","b","R","e","p","o","=">>
MetaRepoId == <<"g","i","t","h","u","b","R","e","p","o","I","d","=">>
MetaCommitAuthorLogin ==
    <<"g","i","t","h","u","b","C","o","m","m","i","t","A","u","t","h","o","r","L","o","g","i",
      "n","=">>

\* Error messages (error.message is only passed on, never computed with).
ErrBranch == "Branch name is undefined."
ErrPreviewUrl == "preview-url is undefined"
ErrProjectName == "projectName is empty"
ErrDeploymentId == "deploymentId is empty"
ErrExec == "The process 'npx' failed with exit code 1"
ErrFetch == "request to https://api.vercel.com failed"
ErrGitHub == "HttpError"
SkipNotice == "github comment skipped."

\* ------------------------------------------------------------ bounds

\* Runs of the action, one after the other, against the same repository.
MaxRuns == 2

\* The page size of the two list endpoints when the request names none
\* (index.ts:161-164, 189-192 pass neither per_page nor page).
PerPage == 30

\* Run slots: slot 1 runs alone in Spec; slots 1 and 2 overlap in SpecConc.
Slots == {1, 2}

IssueNumbers == {1}
Shas == {ShaA, ShaB}

\* ------------------------------------------------------------ github.context

NoPullRequest ==
    [present |-> FALSE, number |-> 0, title |-> Undefined,
     head_ref |-> Undefined, head_sha |-> Undefined]
NoHeadCommit == [present |-> FALSE, message |-> Undefined]

\* push events: every ref with and without a head commit, on one commit, and
\* one push to another commit.
PushContexts ==
    [eventName : {"push"}, pull_request : {NoPullRequest},
     head_commit : {NoHeadCommit, [present |-> TRUE, message |-> CommitMsg]},
     ref : {RefMain, RefNested, RefTag, RefTagHeads}, sha : {ShaA}]
    \cup
    [eventName : {"push"}, pull_request : {NoPullRequest},
     head_commit : {[present |-> TRUE, message |-> CommitMsg]},
     ref : {RefMain}, sha : {ShaB}]

PullRequestPayloads ==
    [present : {TRUE}, number : IssueNumbers, title : {PrTitle, Undefined},
     head_ref : {HeadRef}, head_sha : {HeadSha}]

PullRequestContexts ==
    [eventName : {"pull_request"}, pull_request : PullRequestPayloads,
     head_commit : {NoHeadCommit}, ref : {RefPull}, sha : {ShaA}]

\* Events that are neither pull_request nor push: one without a pull-request
\* payload (with and without a ref), one that carries a pull-request payload.
OtherContexts ==
    [eventName : {"workflow_dispatch"}, pull_request : {NoPullRequest},
     head_commit : {NoHeadCommit}, ref : {RefMain, Undefined}, sha : {ShaA}]
    \cup
    [eventName : {"pull_request_target"}, pull_request : PullRequestPayloads,
     head_commit : {NoHeadCommit}, ref : {RefMain}, sha : {ShaA}]

Contexts == PushContexts \cup PullRequestContexts \cup OtherContexts

\* context.issue.number: the pull request's number when the payload has one.
IssueNumber(context) == context.pull_request.number

\* ------------------------------------------------------------ main, lines 75-137

\* index.ts:76, 78: whether one of the two branches that assign branchName is
\* taken; otherwise line 81 throws.
branchDefined(context) == context.pull_request.present \/ Truthy(context.ref)

\* index.ts:75-80, where branchDefined.
branchName(context) ==
    IF context.pull_request.present THEN context.pull_request.head_ref
    ELSE replace(context.ref, RefsHeads, Empty)

\* index.ts:84-91.
message(context) ==
    IF context.pull_request.present THEN context.pull_request.title
    ELSE IF context.head_commit.present THEN context.head_commit.message
    ELSE DeployPrefix \o Render(context.sha)

\* index.ts:108-137.
deployArgs(context, production) ==
    <<ArgVercel>> \o (IF production THEN <<ArgProd>> ELSE <<>>) \o
    <<ArgT, VercelTokenValue,
      ArgM, MetaCommitAuthorName \o Render(ActorValue),
      ArgM, MetaCommitMessage \o Render(message(context)),
      ArgM, MetaCommitOrg \o Render(OwnerValue),
      ArgM, MetaCommitRef \o Render(branchName(context)),
      ArgM, MetaCommitRepo \o Render(RepoValue),
      ArgM, MetaCommitRepoId \o Render(RepoIdValue),
      ArgM, MetaCommitSha \o Render(context.sha),
      ArgM, MetaDeployment,
      ArgM, MetaOrg \o Render(OwnerValue),
      ArgM, MetaRepo \o Render(RepoValue),
      ArgM, MetaRepoId \o Render(RepoIdValue),
      ArgM, MetaCommitAuthorLogin \o Render(ActorValue)>>

\* index.ts:31.
inspectArgs(deploymentUrl) ==
    <<ArgVercel, ArgInspect, deploymentUrl, ArgT, VercelTokenValue>>

\* ------------------------------------------------------------ vercelInspect, buildComment

\* index.ts:34-39: what vercelInspect returns for the captured stderr.
vercelInspect(myError) ==
    [id |-> match(myError, KeyId), name |-> match(myError, KeyName)]

\* index.ts:157.
titleText(projectName) == TitleHead \o Render(projectName) \o TitleTail

\* index.ts:52: the URL buildComment fetches.
deploymentApiUrl(deploymentId) == ApiBase \o Render(deploymentId)

\* Faulty variant of commentSha: always the event's top-level sha.  C10 must
\* not survive it.
commentShaTop(context) == context.sha

\* index.ts:60-62.
commentSha(context) ==
    IF context.pull_request.present THEN context.pull_request.head_sha
    ELSE context.sha

\* index.ts:63-68: the body buildComment returns; inspectorUrl is
\* res.inspectorUrl of the parsed response, Undefined when it has none.
buildComment(title, deploymentUrl, inspectorUrl, context) ==
    Render(title) \o InspectLabel
        \o Render(IF Truthy(inspectorUrl) THEN inspectorUrl ELSE Null)
        \o PreviewLabel \o Render(deploymentUrl)
        \o BuiltLabel \o Render(commentSha(context)) \o Dot

\* ------------------------------------------------------------ subprocesses and APIs

\* What a spawned `npx vercel ...` will do: the data events it emits, in order,
\* and whether exec() then resolves (exit code 0) or rejects.
Chunk(fd, data) == [fd |-> fd, data |-> data]

DeployScripts ==
    {[chunks |-> <<>>, ok |-> TRUE],
     [chunks |-> <<>>, ok |-> FALSE],
     [chunks |-> <<Chunk("stderr", LineOther)>>, ok |-> FALSE],
     [chunks |-> <<Chunk("stdout", UrlApp)>>, ok |-> TRUE],
     [chunks |-> <<Chunk("stdout", SubSeq(UrlApp, 1, 8)),
                   Chunk("stdout", SubSeq(UrlApp, 9, Len(UrlApp)))>>, ok |-> TRUE]}

InspectScripts ==
    {[chunks |-> <<Chunk("stdout", LineOther), Chunk("stderr", LineId),
                   Chunk("stderr", LineName)>>, ok |-> TRUE],
     [chunks |-> <<Chunk("stderr", LineName), Chunk("stderr", LineOther),
                   Chunk("stderr", LineId)>>, ok |-> TRUE],
     [chunks |-> <<Chunk("stderr", LineId)>>, ok |-> TRUE],
     [chunks |-> <<Chunk("stderr", LineName)>>, ok |-> TRUE],
     [chunks |-> <<Chunk("stderr", LineOther)>>, ok |-> TRUE],
     [chunks |-> <<>>, ok |-> FALSE]}

NoScript == [chunks |-> <<>>, ok |-> TRUE]

\* res.inspectorUrl of the deployment-status response (index.ts:58, 65).
InspectorUrls == {Undefined, InspectorA, InspectorB}

\* A comment as the list endpoints return it.
Comment(id, body) == [id |-> id, body |-> body]

\* One call of a GitHub comment endpoint, with the parameters the code passes.
Call(api, issue_number, commit_sha, comment_id, body) ==
    [api |-> api, issue_number |-> issue_number, commit_sha |-> commit_sha,
     comment_id |-> comment_id, body |-> body]

\* res.data of one list request: the first page of the thread.  The code
\* sends one request, without per_page or page, and reads no further page.
ListPage(thread) == SubSeq(thread, 1, Min(Len(thread), PerPage))

\* Array.prototype.find with v => v.body.includes(title) (index.ts:165, 193):
\* the first listed comment whose body contains the title, as <<comment>>, or
\* <<>> for undefined.
find(data, title) ==
    LET hits == {i \in 1..Len(data) : includes(data[i].body, title)}
    IN IF hits = {} THEN <<>>
       ELSE <<data[CHOOSE i \in hits : \A j \in hits : i <= j]>>

\* Faulty variant of commentIdOf: the found comment's id is dropped, so every
\* run creates.  C2 must not survive it.
commentIdNone(comment) == 0

\* index.ts:166, 194: comment && comment.id; 0 stands for undefined, which
\* `if (commentId)` treats as it treats 0.
commentIdOf(comment) == IF comment = <<>> THEN 0 ELSE comment[1].id

\* The server's side of updateComment / updateCommitComment: the comment with
\* that id gets the new body, whole.
ApplyUpdate(threads, id, body) ==
    [k \in DOMAIN threads |->
        [i \in 1..Len(threads[k]) |->
            IF threads[k][i].id = id THEN Comment(id, body) ELSE threads[k][i]]]

\* The server's side of createComment / createCommitComment.
ApplyCreate(threads, key, id, body) ==
    [threads EXCEPT ![key] = Append(@, Comment(id, body))]

\* ------------------------------------------------------------ state

VARIABLES
    run,            \* per slot: the position and locals of main() and what it did
    issueComments,  \* issue number -> the comments of that thread, oldest first
    commitComments, \* commit sha -> the comments on that commit, oldest first
    nextId,         \* the id the next created comment gets
    started,        \* runs started so far
    lastWriter,     \* the slot whose comment write the server applied last
    isProduction    \* core.getInput("is-production") === "true" (index.ts:10)

vars == <<run, issueComments, commitComments, nextId, started, lastWriter, isProduction>>

IdleContext ==
    [eventName |-> "", pull_request |-> NoPullRequest, head_commit |-> NoHeadCommit,
     ref |-> Undefined, sha |-> Undefined]

FreshRun ==
    [pc |-> "idle", context |-> IdleContext, script |-> NoScript,
     myOutput |-> Empty, myError |-> Empty,          \* index.ts:93-94
     inspectOutput |-> Empty, inspectError |-> Empty, \* index.ts:16-17
     branchName |-> Undefined, message |-> Undefined,
     deploymentUrl |-> Undefined, projectName |-> Undefined,
     deploymentId |-> Undefined, titleText |-> Undefined,
     listed |-> <<>>, comment |-> <<>>, commentId |-> 0,
     inspectorUrl |-> Undefined, body |-> Undefined,
     exported |-> <<>>, execs |-> <<>>, outputs |-> <<>>, fetches |-> <<>>,
     calls |-> <<>>, notices |-> <<>>, thrown |-> <<>>, failed |-> <<>>]

\* Faulty variant of mainCatch: the rejection is swallowed.  C4 must not
\* survive it.
mainCatchSilent(rr, error) == [rr EXCEPT !.pc = "failed"]

\* index.ts:220-222: main().catch(error => core.setFailed(error.message)).
mainCatch(rr, error) == [rr EXCEPT !.pc = "failed", !.failed = Append(@, error)]

\* throw new Error(msg) inside main, or a rejected await: main's promise
\* rejects with it.
Throw(rr, msg) == mainCatch([rr EXCEPT !.thrown = Append(@, msg)], msg)

\* The thread a run's comment calls are about.
ThreadOf(rr) ==
    IF rr.context.eventName = "pull_request"
    THEN issueComments[IssueNumber(rr.context)]
    ELSE commitComments[rr.context.sha]

\* Threads before the first run: empty; one reviewer comment followed by the
\* status comment of an earlier deployment; a full page of reviewer comments.
UserThread(base, n) == [i \in 1..n |-> Comment(base + i, UserBody)]

InitThread(kind, base, sha) ==
    CASE kind = "empty" -> <<>>
      [] kind = "status" ->
            Append(UserThread(base, 1),
                   Comment(base + 2,
                           buildComment(titleText(ProjName), UrlApp, InspectorA,
                                        [IdleContext EXCEPT !.sha = sha])))
      [] kind = "full" -> UserThread(base, PerPage)

Init ==
    /\ run = [r \in Slots |-> FreshRun]
    /\ \E kind \in {"empty", "status", "full"} :
        /\ issueComments = [n \in IssueNumbers |-> InitThread(kind, 0, HeadSha)]
        /\ commitComments =
              [s \in Shas |-> IF s = ShaA /\ kind = "status"
                               THEN InitThread(kind, 40, ShaA) ELSE <<>>]
    /\ nextId = 100
    /\ started = 0
    /\ lastWriter = 0
    /\ isProduction \in BOOLEAN

\* ------------------------------------------------------------ main()

Others == <<issueComments, commitComments, nextId, lastWriter, isProduction>>

\* index.ts:71-138, up to the await of the deploy subprocess: export the two
\* variables, resolve branch and message (or throw), spawn `npx vercel`.
Begin(r, context) ==
    LET rr == [FreshRun EXCEPT
                 !.context = context,
                 !.exported = <<[name |-> "VERCEL_ORG_ID", value |-> OrgIdValue],
                                [name |-> "VERCEL_PROJECT_ID", value |-> ProjectIdValue]>>]
    IN /\ started' = started + 1
       /\ IF ~branchDefined(context)
          THEN run' = [run EXCEPT ![r] = Throw(rr, ErrBranch)]
          ELSE \E script \in DeployScripts :
                 run' = [run EXCEPT ![r] =
                           [rr EXCEPT !.pc = "deploy",
                                      !.branchName = branchName(context),
                                      !.message = message(context),
                                      !.execs = <<deployArgs(context, isProduction)>>,
                                      !.script = script]]
       /\ UNCHANGED Others

\* A run of the action starts once the one before it has ended.
MainBegin(r) ==
    /\ run[r].pc \in {"idle", "done", "failed"}
    /\ started < MaxRuns
    /\ \E context \in Contexts : Begin(r, context)

\* index.ts:97-100: the stdout listener of the deploy subprocess.  (core.info,
\* here and in the three listeners below, only writes the process log, which
\* nothing reads; it is not part of the state.)
DeployStdout(r) ==
    /\ run[r].pc = "deploy"
    /\ run[r].script.chunks # <<>>
    /\ Head(run[r].script.chunks).fd = "stdout"
    /\ run' = [run EXCEPT ![r] =
                 [@ EXCEPT !.myOutput = @ \o Head(run[r].script.chunks).data,
                           !.script.chunks = Tail(@)]]
    /\ UNCHANGED <<started, Others>>

\* index.ts:101-104: the stderr listener of the deploy subprocess.
DeployStderr(r) ==
    /\ run[r].pc = "deploy"
    /\ run[r].script.chunks # <<>>
    /\ Head(run[r].script.chunks).fd = "stderr"
    /\ run' = [run EXCEPT ![r] =
                 [@ EXCEPT !.myError = @ \o Head(run[r].script.chunks).data,
                           !.script.chunks = Tail(@)]]
    /\ UNCHANGED <<started, Others>>

\* Faulty variant of afterDeploy: the captured stdout is not tested.  C3 must
\* not survive it.
afterDeployUnchecked(rr, script) ==
    [rr EXCEPT !.pc = "inspect",
               !.deploymentUrl = rr.myOutput,
               !.outputs = Append(@, [name |-> "preview-url", value |-> rr.myOutput]),
               !.execs = Append(@, inspectArgs(rr.myOutput)),
               !.script = script]

\* index.ts:138-149, 13-32: exec resolved; the captured stdout is the
\* deployment URL, or the run throws; then vercelInspect spawns
\* `npx vercel inspect`.
afterDeploy(rr, script) ==
    IF Truthy(rr.myOutput)
    THEN [rr EXCEPT !.pc = "inspect",
                    !.deploymentUrl = rr.myOutput,
                    !.outputs = Append(@, [name |-> "preview-url", value |-> rr.myOutput]),
                    !.execs = Append(@, inspectArgs(rr.myOutput)),
                    !.script = script]
    ELSE Throw([rr EXCEPT !.deploymentUrl = rr.myOutput], ErrPreviewUrl)

DeployResolve(r) ==
    /\ run[r].pc = "deploy"
    /\ run[r].script.chunks = <<>>
    /\ run[r].script.ok
    /\ \E script \in InspectScripts :
          run' = [run EXCEPT ![r] = afterDeploy(@, script)]
    /\ UNCHANGED <<started, Others>>

\* index.ts:138: exec rejected (the subprocess failed).
DeployReject(r) ==
    /\ run[r].pc = "deploy"
    /\ run[r].script.chunks = <<>>
    /\ ~run[r].script.ok
    /\ run' = [run EXCEPT ![r] = Throw(@, ErrExec)]
    /\ UNCHANGED <<started, Others>>

\* index.ts:20-23: the stdout listener of the inspect subprocess.
InspectStdout(r) ==
    /\ run[r].pc = "inspect"
    /\ run[r].script.chunks # <<>>
    /\ Head(run[r].script.chunks).fd = "stdout"
    /\ run' = [run EXCEPT ![r] =
                 [@ EXCEPT !.inspectOutput = @ \o Head(run[r].script.chunks).data,
                           !.script.chunks = Tail(@)]]
    /\ UNCHANGED <<started, Others>>

\* index.ts:24-27: the stderr listener of the inspect subprocess.
InspectStderr(r) ==
    /\ run[r].pc = "inspect"
    /\ run[r].script.chunks # <<>>
    /\ Head(run[r].script.chunks).fd = "stderr"
    /\ run' = [run EXCEPT ![r] =
                 [@ EXCEPT !.inspectError = @ \o Head(run[r].script.chunks).data,
                           !.script.chunks = Tail(@)]]
    /\ UNCHANGED <<started, Others>>

\* Faulty variant of publish: the surface is chosen by the payload, not by the
\* event name.  C7 must not survive it.
publishByPayload(rr) ==
    IF rr.context.pull_request.present
    THEN [rr EXCEPT !.pc = "list",
                    !.calls = Append(@, Call("issues.listComments",
                                             IssueNumber(rr.context), Empty, 0, Empty))]
    ELSE [rr EXCEPT !.pc = "list",
                    !.calls = Append(@, Call("repos.listCommentsForCommit",
                                             0, rr.context.sha, 0, Empty))]

\* index.ts:159-164, 188-192, 216-218: the branch on the event name, up to the
\* await of the list request (or the skip notice and the end of main).
publish(rr) ==
    IF rr.context.eventName = "pull_request"
    THEN [rr EXCEPT !.pc = "list",
                    !.calls = Append(@, Call("issues.listComments",
                                             IssueNumber(rr.context), Empty, 0, Empty))]
    ELSE IF rr.context.eventName = "push"
    THEN [rr EXCEPT !.pc = "list",
                    !.calls = Append(@, Call("repos.listCommentsForCommit",
                                             0, rr.context.sha, 0, Empty))]
    ELSE [rr EXCEPT !.pc = "done", !.notices = Append(@, SkipNotice)]

\* Faulty variant of afterInspect: the deployment id is checked before the
\* project name.  C9 must not survive it.
afterInspectIdFirst(rr) ==
    LET res == vercelInspect(rr.inspectError)
        back == [rr EXCEPT !.inspectOutput = Empty, !.inspectError = Empty,
                           !.projectName = res.name, !.deploymentId = res.id]
    IN IF ~Truthy(res.id) THEN Throw(back, ErrDeploymentId)
       ELSE IF ~Truthy(res.name) THEN Throw(back, ErrProjectName)
       ELSE publish([back EXCEPT !.titleText = titleText(res.name)])

\* index.ts:34-39, 147-157: vercelInspect returns what it scraped from the
\* captured stderr (its locals are gone with it); main checks the two fields
\* and builds the title.
afterInspect(rr) ==
    LET res == vercelInspect(rr.inspectError)
        back == [rr EXCEPT !.inspectOutput = Empty, !.inspectError = Empty,
                           !.projectName = res.name, !.deploymentId = res.id]
    IN IF ~Truthy(res.name) THEN Throw(back, ErrProjectName)
       ELSE IF ~Truthy(res.id) THEN Throw(back, ErrDeploymentId)
       ELSE publish([back EXCEPT !.titleText = titleText(res.name)])

InspectResolve(r) ==
    /\ run[r].pc = "inspect"
    /\ run[r].script.chunks = <<>>
    /\ run[r].script.ok
    /\ run' = [run EXCEPT ![r] = afterInspect(@)]
    /\ UNCHANGED <<started, Others>>

\* index.ts:32: exec rejected inside vercelInspect.
InspectReject(r) ==
    /\ run[r].pc = "inspect"
    /\ run[r].script.chunks = <<>>
    /\ ~run[r].script.ok
    /\ run' = [run EXCEPT ![r] =
                 Throw([@ EXCEPT !.inspectOutput = Empty, !.inspectError = Empty], ErrExec)]
    /\ UNCHANGED <<started, Others>>

\* index.ts:165-167 / 193-195, then 42-57: the list request answered with the
\* thread's first page; find the status comment; buildComment starts its fetch.
afterList(rr, data) ==
    LET comment == find(data, rr.titleText)
    IN [rr EXCEPT !.pc = "fetch",
                  !.listed = data,
                  !.comment = comment,
                  !.commentId = commentIdOf(comment),
                  !.fetches = Append(@, deploymentApiUrl(rr.deploymentId))]

ListResolve(r) ==
    /\ run[r].pc = "list"
    /\ run' = [run EXCEPT ![r] = afterList(@, ListPage(ThreadOf(run[r])))]
    /\ UNCHANGED <<started, Others>>

\* index.ts:161, 189: the list request rejected.
ListReject(r) ==
    /\ run[r].pc = "list"
    /\ run' = [run EXCEPT ![r] = Throw(@, ErrGitHub)]
    /\ UNCHANGED <<started, Others>>

\* Faulty variant of writeCall: the found comment is ignored and a comment is
\* created every time.  C8 must not survive it.
writeCallCreateOnly(rr, body) ==
    IF rr.context.eventName = "pull_request"
    THEN Call("issues.createComment", IssueNumber(rr.context), Empty, 0, body)
    ELSE Call("repos.createCommitComment", 0, rr.context.sha, 0, body)

\* index.ts:167-187 / 195-215: with the body built, the update or the create
\* request is sent.
writeCall(rr, body) ==
    IF rr.context.eventName = "pull_request"
    THEN IF rr.commentId # 0
         THEN Call("issues.updateComment", 0, Empty, rr.commentId, body)
         ELSE Call("issues.createComment", IssueNumber(rr.context), Empty, 0, body)
    ELSE IF rr.commentId # 0
         THEN Call("repos.updateCommitComment", 0, Empty, rr.commentId, body)
         ELSE Call("repos.createCommitComment", 0, rr.context.sha, 0, body)

\* index.ts:58-68, then the write request of 168 / 178 / 196 / 206.
afterFetch(rr, inspectorUrl) ==
    LET body == buildComment(rr.titleText, rr.deploymentUrl, inspectorUrl, rr.context)
    IN [rr EXCEPT !.pc = "write",
                  !.inspectorUrl = inspectorUrl,
                  !.body = body,
                  !.calls = Append(@, writeCall(rr, body))]

FetchResolve(r) ==
    /\ run[r].pc = "fetch"
    /\ \E inspectorUrl \in InspectorUrls :
          run' = [run EXCEPT ![r] = afterFetch(@, inspectorUrl)]
    /\ UNCHANGED <<started, Others>>

\* index.ts:51, 58: fetch or getRes.json() rejected; no write request is sent.
FetchReject(r) ==
    /\ run[r].pc = "fetch"
    /\ run' = [run EXCEPT ![r] = Throw(@, ErrFetch)]
    /\ UNCHANGED <<started, Others>>

\* The server applies the write request and answers; main ends.
WriteResolve(r) ==
    LET call == run[r].calls[Len(run[r].calls)]
    IN /\ run[r].pc = "write"
       /\ issueComments' =
            CASE call.api = "issues.updateComment" ->
                    ApplyUpdate(issueComments, call.comment_id, call.body)
              [] call.api = "issues.createComment" ->
                    ApplyCreate(issueComments, call.issue_number, nextId, call.body)
              [] OTHER -> issueComments
       /\ commitComments' =
            CASE call.api = "repos.updateCommitComment" ->
                    ApplyUpdate(commitComments, call.comment_id, call.body)
              [] call.api = "repos.createCommitComment" ->
                    ApplyCreate(commitComments, call.commit_sha, nextId, call.body)
              [] OTHER -> commitComments
       /\ nextId' = IF call.comment_id = 0 THEN nextId + 1 ELSE nextId
       /\ lastWriter' = r
       /\ run' = [run EXCEPT ![r] = [@ EXCEPT !.pc = "done"]]
       /\ UNCHANGED <<started, isProduction>>

\* The write request rejected: nothing was written.
WriteReject(r) ==
    /\ run[r].pc = "write"
    /\ run' = [run EXCEPT ![r] = Throw(@, ErrGitHub)]
    /\ UNCHANGED <<started, Others>>

Step(r) ==
    \/ DeployStdout(r) \/ DeployStderr(r) \/ DeployResolve(r) \/ DeployReject(r)
    \/ InspectStdout(r) \/ InspectStderr(r) \/ InspectResolve(r) \/ InspectReject(r)
    \/ ListResolve(r) \/ ListReject(r)
    \/ FetchResolve(r) \/ FetchReject(r)
    \/ WriteResolve(r) \/ WriteReject(r)

\* Runs one after the other.
Next == MainBegin(1) \/ Step(1)

Spec == Init /\ [][Next]_vars

\* Two runs that overlap: each slot runs once, for a pull_request or push
\* event, and their steps interleave freely.
ConcContexts ==
    {c \in PullRequestContexts : c.pull_request.title = PrTitle}
    \cup {c \in PushContexts : c.ref = RefMain /\ c.head_commit.present /\ c.sha = ShaA}

MainBeginConc(r) ==
    /\ run[r].pc = "idle"
    /\ \E context \in ConcContexts : Begin(r, context)

NextConc == \E r \in Slots : MainBeginConc(r) \/ Step(r)

SpecConc == Init /\ [][NextConc]_vars

\* ------------------------------------------------------------ vocabulary of the properties

\* The title marker of the project the inspect outputs name.
Marker == TitleHead \o ProjName \o TitleTail

\* The comments of a thread whose body contains the marker.
MarkerComments(thread) == {i \in 1..Len(thread) : includes(thread[i].body, Marker)}

AllThreads ==
    {issueComments[n] : n \in IssueNumbers} \cup {commitComments[s] : s \in Shas}

UpdateApis == {"issues.updateComment", "repos.updateCommitComment"}
CreateApis == {"issues.createComment", "repos.createCommitComment"}
IssueApis == {"issues.listComments", "issues.updateComment", "issues.createComment"}
CommitApis ==
    {"repos.listCommentsForCommit", "repos.updateCommitComment", "repos.createCommitComment"}

\* The write calls (update or create) a run has made, in order.
WriteCalls(rr) ==
    LET Sel(c) == c.api \in UpdateApis \cup CreateApis
    IN SelectSeq(rr.calls, Sel)

Ended(rr) == rr.pc \in {"done", "failed"}

\* The deploy subprocess of the run has been spawned and its exec has settled.
DeploySettled(rr) == Len(rr.execs) >= 1 /\ rr.pc # "deploy"

\* The inspect subprocess has been spawned and its exec has resolved.
InspectResolved(rr) == Len(rr.execs) >= 2 /\ rr.pc # "inspect" /\ rr.script.ok

\* ------------------------------------------------------------ C1

\* C1 (as claimed): after any sequence of non-overlapping runs with the same
\* title marker, every thread holds at most one comment whose body contains
\* the marker; a run that completed its publication leaves exactly one, and
\* its body is the body that run built.
C1_AtMostOneStatusComment ==
    /\ \A thread \in AllThreads : Cardinality(MarkerComments(thread)) <= 1
    /\ (run[1].pc = "done" /\ run[1].body # Undefined) =>
          \E i \in 1..Len(ThreadOf(run[1])) :
             /\ MarkerComments(ThreadOf(run[1])) = {i}
             /\ ThreadOf(run[1])[i].body = run[1].body

\* The same statement for threads that fit in one page of the list request:
\* this one holds (it is not C1, whose threads are of any length).
C1_WithinOnePage ==
    (\A thread \in AllThreads : Len(thread) <= PerPage) => C1_AtMostOneStatusComment

\* A second run has replaced the body the first one wrote.
C1_SecondRunReplaced ==
    /\ started = 2
    /\ run[1].pc = "done"
    /\ run[1].comment # <<>>
    /\ run[1].comment[1].id >= 100
    /\ run[1].comment[1].body # run[1].body
    /\ C1_AtMostOneStatusComment

\* ------------------------------------------------------------ C2

\* C2 (as claimed): every run that reached Comment Publication for a
\* pull_request or push event (it sent its list request) and has ended made
\* exactly one comment write call.
C2_AlwaysOneWrite ==
    (Ended(run[1]) /\ run[1].calls # <<>>) => Len(WriteCalls(run[1])) = 1

\* C2 (amended): a run never makes more than one write call; a run whose list
\* request and deployment-status request both succeeded made exactly one: a
\* create on the run's thread when no listed body contains the title marker,
\* an update of the first listed comment whose body contains it otherwise;
\* a run whose list or deployment-status request was rejected made none.
C2_OneWriteWhenBuilt ==
    LET rr == run[1]
        hits == {i \in 1..Len(rr.listed) : includes(rr.listed[i].body, Marker)}
        writes == WriteCalls(rr)
    IN /\ Len(writes) <= 1
       /\ (Ended(rr) /\ rr.calls # <<>>) =>
            IF rr.body = Undefined
            THEN writes = <<>> /\ rr.pc = "failed"
            ELSE /\ Len(writes) = 1
                 /\ hits = {} =>
                       /\ writes[1].api \in CreateApis
                       /\ writes[1].comment_id = 0
                 /\ hits # {} =>
                       /\ writes[1].api \in UpdateApis
                       /\ \E i \in hits :
                            /\ \A j \in hits : i <= j
                            /\ writes[1].comment_id = rr.listed[i].id

\* A run found the status comment listed and sent one update for it.
C2_Updated ==
    /\ run[1].pc = "done"
    /\ Len(WriteCalls(run[1])) = 1
    /\ WriteCalls(run[1])[1].api \in UpdateApis
    /\ \E i \in 1..Len(run[1].listed) : includes(run[1].listed[i].body, Marker)

\* ------------------------------------------------------------ C3

\* C3 (as claimed): whenever the deploy subprocess has exited with empty
\* captured stdout, the run failed with "preview-url is undefined", set no
\* output and did nothing further.
C3_EmptyStdoutAlwaysPreviewError ==
    (DeploySettled(run[1]) /\ run[1].myOutput = Empty) =>
        /\ run[1].failed = <<ErrPreviewUrl>>
        /\ run[1].outputs = <<>>
        /\ Len(run[1].execs) = 1 /\ run[1].fetches = <<>> /\ run[1].calls = <<>>

\* C3 (amended): when the deploy exec resolves with empty captured stdout the
\* run fails with "preview-url is undefined"; when it rejects (the subprocess
\* failed) with empty stdout the run fails with the rejection's message; in
\* both cases no output is set and there is no inspect subprocess, no
\* deployment-status request and no comment call.
C3_EmptyStdoutFails ==
    (DeploySettled(run[1]) /\ run[1].myOutput = Empty) =>
        /\ run[1].pc = "failed"
        /\ run[1].failed = <<IF run[1].script.ok THEN ErrPreviewUrl ELSE ErrExec>>
        /\ run[1].outputs = <<>>
        /\ Len(run[1].execs) = 1 /\ run[1].fetches = <<>> /\ run[1].calls = <<>>

\* The deploy exec resolved with nothing on stdout and the run failed for it.
C3_PreviewUrlUndefined ==
    /\ DeploySettled(run[1]) /\ run[1].script.ok
    /\ run[1].myOutput = Empty
    /\ run[1].failed = <<ErrPreviewUrl>>

\* ------------------------------------------------------------ C4

\* C4: a run reports failure at most once; a run in which a fatal condition
\* arose (no branch, empty preview URL, no project name, no deployment id, a
\* rejected subprocess or request) has ended, reported failure exactly once,
\* with that error's message; a run in which none arose never called
\* setFailed, the run for an event that is neither pull_request nor push
\* included.
C4_FailureReportedOnce ==
    LET rr == run[1]
    IN /\ Len(rr.failed) <= 1
       /\ rr.thrown # <<>> => rr.pc = "failed" /\ rr.failed = rr.thrown
       /\ rr.thrown = <<>> => rr.pc # "failed" /\ rr.failed = <<>>
       /\ rr.pc = "done" => rr.failed = <<>>
       /\ (rr.pc # "idle" /\ ~branchDefined(rr.context)) => rr.failed = <<ErrBranch>>
       /\ (DeploySettled(rr) /\ ~rr.script.ok /\ Len(rr.execs) = 1) =>
             rr.failed = <<ErrExec>>
       /\ (DeploySettled(rr) /\ rr.script.ok /\ rr.myOutput = Empty) =>
             rr.failed = <<ErrPreviewUrl>>
       /\ (InspectResolved(rr) /\ rr.projectName = Null) =>
             rr.failed = <<ErrProjectName>>
       /\ (InspectResolved(rr) /\ rr.projectName # Null /\ rr.deploymentId = Null) =>
             rr.failed = <<ErrDeploymentId>>
       /\ (Ended(rr) /\ rr.titleText # Undefined
             /\ rr.context.eventName \notin {"pull_request", "push"}) =>
             rr.pc = "done"

\* A rejected deployment-status request was reported as the run's failure.
C4_RejectionReported ==
    /\ run[1].pc = "failed"
    /\ run[1].fetches # <<>>
    /\ run[1].failed = <<ErrFetch>>

\* ------------------------------------------------------------ C5

\* ref with a leading "refs/heads/" removed, once; ref itself when it does
\* not start with it.
StripLeading(ref) ==
    IF Len(ref) >= Len(RefsHeads) /\ SubSeq(ref, 1, Len(RefsHeads)) = RefsHeads
    THEN SubSeq(ref, Len(RefsHeads) + 1, Len(ref))
    ELSE ref

\* C5 (as claimed): for a push event the branch name is the ref with a leading
\* "refs/heads/" stripped once, and a ref without that leading prefix is left
\* unchanged; with a pull-request payload it is the head ref verbatim; with
\* neither payload nor ref the run fails with the branch error before any
\* subprocess is started.
C5_BranchName ==
    LET rr == run[1]
    IN rr.pc # "idle" =>
         /\ (rr.context.eventName = "push") => rr.branchName = StripLeading(rr.context.ref)
         /\ rr.context.pull_request.present =>
               rr.branchName = rr.context.pull_request.head_ref
         /\ (~rr.context.pull_request.present /\ ~Truthy(rr.context.ref)) =>
               rr.failed = <<ErrBranch>> /\ rr.execs = <<>>

\* ------------------------------------------------------------ C6

\* The message the claim describes: the title if there is one, else the head
\* commit's message if there is one, else "Deploy <sha>".
ClaimedMessage(context) ==
    IF context.pull_request.present /\ Truthy(context.pull_request.title)
    THEN context.pull_request.title
    ELSE IF context.head_commit.present /\ Truthy(context.head_commit.message)
    THEN context.head_commit.message
    ELSE DeployPrefix \o context.sha

\* C6 (as claimed): the deploy subprocess is given githubCommitMessage=<the
\* title if present, else the head-commit message if present, else
\* "Deploy <sha>">, and with a pull-request payload its githubCommitRef is the
\* pull request's head ref whatever the message.
C6_Message ==
    LET rr == run[1]
    IN rr.execs # <<>> =>
         /\ \E i \in 1..Len(rr.execs[1]) :
               rr.execs[1][i] = MetaCommitMessage \o ClaimedMessage(rr.context)
         /\ rr.context.pull_request.present =>
               \E i \in 1..Len(rr.execs[1]) :
                  rr.execs[1][i] = MetaCommitRef \o rr.context.pull_request.head_ref

\* ------------------------------------------------------------ C7

\* The ids of the comments of a thread.
Ids(thread) == {thread[i].id : i \in 1..Len(thread)}

\* C7: the comment calls of a run are decided by the event name alone: a
\* pull_request run calls only the issue-comment endpoints, for the pull
\* request's issue (an update names a comment of that thread); a push run
\* calls only the commit-comment endpoints, for the triggering commit; a run
\* for any other event makes no comment call, and having deployed and
\* inspected it logs the skip notice and ends without error.
C7_SurfaceByEventKind ==
    LET rr == run[1]
        kind == rr.context.eventName
    IN /\ kind = "pull_request" =>
            /\ rr.notices = <<>>
            /\ \A i \in 1..Len(rr.calls) :
                 /\ rr.calls[i].api \in IssueApis
                 /\ rr.calls[i].api \notin UpdateApis =>
                       rr.calls[i].issue_number = rr.context.pull_request.number
                 /\ rr.calls[i].api \in UpdateApis =>
                       rr.calls[i].comment_id \in
                          Ids(issueComments[rr.context.pull_request.number])
       /\ kind = "push" =>
            /\ rr.notices = <<>>
            /\ \A i \in 1..Len(rr.calls) :
                 /\ rr.calls[i].api \in CommitApis
                 /\ rr.calls[i].api \notin UpdateApis =>
                       rr.calls[i].commit_sha = rr.context.sha
                 /\ rr.calls[i].api \in UpdateApis =>
                       rr.calls[i].comment_id \in Ids(commitComments[rr.context.sha])
       /\ kind \notin {"pull_request", "push"} =>
            /\ rr.calls = <<>>
            /\ rr.fetches = <<>>
            /\ (InspectResolved(rr) /\ Truthy(rr.projectName) /\ Truthy(rr.deploymentId)) =>
                  /\ rr.pc = "done"
                  /\ rr.notices = <<SkipNotice>>
                  /\ rr.failed = <<>>
                  /\ Len(rr.execs) = 2
            /\ rr.notices # <<>> => rr.pc = "done" /\ Len(rr.execs) = 2

\* A run for an event with a pull-request payload that is not a pull_request
\* event deployed, inspected and skipped the comment.
C7_Skipped ==
    /\ run[1].context.eventName = "pull_request_target"
    /\ run[1].context.pull_request.present
    /\ run[1].pc = "done"
    /\ run[1].notices = <<SkipNotice>>
    /\ run[1].calls = <<>>

\* ------------------------------------------------------------ C9

\* C9: when the inspect subprocess resolved and no project name, or no
\* deployment id, was scraped, the run has failed with "projectName is empty"
\* (also when both are missing) or else "deploymentId is empty", made no
\* deployment-status request and no comment call, ran the deploy subprocess
\* once and the inspect subprocess once, and the preview-url output holds the
\* deploy subprocess's non-empty stdout.
C9_InspectFieldsMissing ==
    LET rr == run[1]
    IN (InspectResolved(rr) /\ (rr.projectName = Null \/ rr.deploymentId = Null)) =>
         /\ rr.pc = "failed"
         /\ rr.failed =
               <<IF rr.projectName = Null THEN ErrProjectName ELSE ErrDeploymentId>>
         /\ rr.fetches = <<>> /\ rr.calls = <<>>
         /\ Len(rr.execs) = 2
         /\ rr.execs[1][1] = ArgVercel /\ rr.execs[1][2] # ArgInspect
         /\ rr.execs[2] = inspectArgs(rr.myOutput)
         /\ rr.myOutput # Empty
         /\ rr.outputs = <<[name |-> "preview-url", value |-> rr.myOutput]>>

\* Neither field was scraped and the project name was the one reported.
C9_BothMissing ==
    /\ InspectResolved(run[1])
    /\ run[1].projectName = Null /\ run[1].deploymentId = Null
    /\ run[1].failed = <<ErrProjectName>>
    /\ run[1].outputs # <<>>

\* ------------------------------------------------------------ C10

\* The sha the claim names for the comment.
ClaimedSha(context) ==
    IF context.pull_request.present THEN context.pull_request.head_sha ELSE context.sha

SameThread(a, b) ==
    /\ a.context.eventName = b.context.eventName
    /\ a.context.eventName = "pull_request" =>
          IssueNumber(a.context) = IssueNumber(b.context)
    /\ a.context.eventName = "push" => a.context.sha = b.context.sha

\* C8: two overlapping runs on the same thread are not serialised.  When both
\* listed the thread before either wrote and found no comment with the title
\* marker, both create one and the thread ends with both (two comments with
\* the marker); when both found the same comment, both update it and the body
\* that remains is the one of the update the server applied last.
C8_RaceOutcome ==
    \A a, b \in Slots :
       (/\ a # b
        /\ run[a].pc = "done" /\ run[b].pc = "done"
        /\ SameThread(run[a], run[b])
        /\ run[a].body # Undefined /\ run[b].body # Undefined) =>
          LET thread == ThreadOf(run[a])
              wa == WriteCalls(run[a])[1]
              wb == WriteCalls(run[b])[1]
          IN /\ (run[a].comment = <<>> /\ run[b].comment = <<>>) =>
                  /\ wa.api \in CreateApis /\ wb.api \in CreateApis
                  /\ \E i, j \in MarkerComments(thread) :
                        /\ i # j
                        /\ thread[i].body = run[a].body
                        /\ thread[j].body = run[b].body
             /\ (run[a].commentId # 0 /\ run[a].commentId = run[b].commentId) =>
                  /\ wa.api \in UpdateApis /\ wb.api \in UpdateApis
                  /\ wa.comment_id = run[a].commentId
                  /\ wb.comment_id = run[a].commentId
                  /\ \E i \in 1..Len(thread) :
                        /\ thread[i].id = run[a].commentId
                        /\ thread[i].body = run[lastWriter].body

\* Both runs listed an empty thread before either wrote; each created a
\* comment, and the thread now holds two comments with the same marker.
C8_Duplicate ==
    /\ run[1].pc = "done" /\ run[2].pc = "done"
    /\ SameThread(run[1], run[2])
    /\ run[1].listed = <<>> /\ run[2].listed = <<>>
    /\ run[1].body # Undefined /\ run[2].body # Undefined
    /\ Cardinality(MarkerComments(ThreadOf(run[1]))) = 2

\* Both runs found the same comment and updated it with different bodies; the
\* later update's body is the one in the thread.
C8_LastWriterWins ==
    /\ run[1].pc = "done" /\ run[2].pc = "done"
    /\ run[1].commentId # 0 /\ run[1].commentId = run[2].commentId
    /\ run[1].body # run[2].body
    /\ lastWriter = 1
    /\ \E i \in 1..Len(ThreadOf(run[1])) : ThreadOf(run[1])[i].body = run[1].body
====
